---- MODULE Spec2Model ----
(***************************************************************************)
(* A model of vpack.h: the single-variant codec (snvpack64/snvunpack64),   *)
(* the locus codec (vpack64_loc) and the multi-sample accumulator record   *)
(* (vpack_rec1_t with vpack_rec, vunpack_rec, vp_get_genotype).            *)
(*                                                                         *)
(* A vpack64_t is a function from bit position 0..63 (0 = least            *)
(* significant) to {0,1}; shifts and ORs are the C operators on uint64_t,  *)
(* so bits shifted past position 63 are lost.  Characters are their ASCII  *)
(* codes, because ENCODE indexes its table with the low three bits of the  *)
(* byte.                                                                   *)
(***************************************************************************)
EXTENDS Integers, Sequences, FiniteSets, TLC

VARIABLES
    rec,      \* the vpack_rec1_t under test: [v, offset, gt, u]
    input,    \* the caller's stream of genotype pairs, repeated cyclically
    npacked,  \* number of vpack_rec calls that returned 0
    last,     \* the last call on the record: [op, idx, void, ret]
    pre,      \* offset and u of the record before the last call
    late,     \* vpack_rec and vunpack_rec calls since the first vunpack_rec, it included
    out,      \* the caller's vpack_gt_t handed to vp_get_genotype
    snv,      \* the caller's arguments to snvpack64 / vpack64_loc
    word,     \* the vpack64_t returned by snvpack64, consumed by snvunpack64
    loc,      \* the vpack64_t returned by vpack64_loc
    dec,      \* the caller's output locations of snvunpack64
    pc,       \* position of the single-variant caller
    gtc,      \* the genotype-codec caller: [pc, tok, v, u]
    alc       \* the allele-codec caller: [pc, byte, code, v, base]

vars == <<rec, input, npacked, last, pre, late, out, snv, word, loc, dec, pc, gtc, alc>>
recVars == <<rec, input, npacked, last, pre, late, out>>
snvVars == <<snv, word, loc, dec, pc>>
codecVars == <<gtc, alc>>

----------------------------------------------------------------------------
(* uint64_t arithmetic                                                     *)

BitIdx == 0..63

Zero64 == [i \in BitIdx |-> 0]

\* The value n (0 <= n < 2^31) converted to uint64_t.
U64(n) == [i \in BitIdx |-> IF i < 31 THEN (n \div (2^i)) % 2 ELSE 0]

\* v << k
Shl(v, k) == [i \in BitIdx |-> IF i >= k THEN v[i - k] ELSE 0]

\* v >> k
Shr(v, k) == [i \in BitIdx |-> IF i + k <= 63 THEN v[i + k] ELSE 0]

\* v | w
BitOr(v, w) == [i \in BitIdx |-> IF v[i] = 1 \/ w[i] = 1 THEN 1 ELSE 0]

RECURSIVE BitsVal(_, _, _)
\* The number held in bits lo .. lo+n-1 of v.
BitsVal(v, lo, n) ==
    IF n = 0 THEN 0
    ELSE (IF v[lo + n - 1] = 1 THEN 2^(n - 1) ELSE 0) + BitsVal(v, lo, n - 1)

\* (uint32_t) v
U32(v) == BitsVal(v, 0, 32)

RECURSIVE AndValFrom(_, _, _)
\* The number v & m restricted to bits i and above of v, for m >> i given as
\* the number m.
AndValFrom(v, m, i) ==
    IF m = 0 THEN 0
    ELSE (IF m % 2 = 1 /\ v[i] = 1 THEN 2^i ELSE 0) + AndValFrom(v, m \div 2, i + 1)

\* The number v & m, for a mask m < 2^31.
AndVal(v, m) == AndValFrom(v, m, 0)

\* c & m for two small non-negative numbers (byte and mask)
RECURSIVE AndNat(_, _)
AndNat(c, m) ==
    IF c = 0 \/ m = 0 THEN 0
    ELSE ((c % 2) * (m % 2)) + 2 * AndNat(c \div 2, m \div 2)

----------------------------------------------------------------------------
(* Tables and macros                                                       *)

_DNA_8_MASK == 7
_DECODE_8_MASK == 3
VMASK_28 == 268435455
VMASK_5 == 31

chA == 65
chC == 67
chG == 71
chT == 84
chN == 78

ch0 == 48
ch1 == 49
chDot == 46
chSlash == 47
chBar == 124

\* dna_8 with the codes of T and G exchanged.
dna_8_swapped == [i \in 0..7 |-> <<4, 0, 4, 1, 2, 4, 4, 3>>[i + 1]]

\* static const uint8_t dna_8[8], indexed from 0
dna_8 == [i \in 0..7 |-> <<4, 0, 4, 1, 3, 4, 4, 2>>[i + 1]]

\* static const uint8_t dec_dna_8[8] (the last three entries are zero-filled)
dec_dna_8 == [i \in 0..7 |-> <<chA, chC, chG, chT, chN, 0, 0, 0>>[i + 1]]

ENCODE(c) == dna_8[AndNat(c, _DNA_8_MASK)]

\* VPACK_BASE with the code cut to the two bits of its field.
VPACK_BASE_masked(v, base) == BitOr(Shl(v, 2), U64(ENCODE(base) % 4))

\* (*v) <<= 2; (*v) |= ENCODE(base);
VPACK_BASE(v, base) == BitOr(Shl(v, 2), U64(ENCODE(base)))

\* (*base) = dec_dna_8[(*v) & 3]; (*v) >>= 2;   returns [base, v]
VUNPACK_BASE(v) ==
    [base |-> dec_dna_8[AndVal(v, _DECODE_8_MASK)],
     v |-> Shr(v, 2)]

----------------------------------------------------------------------------
(* Single variant packing                                                  *)

\* The switch of vpack_gt9 with a sentinel ORed in by the default case.
gt9_case_sentinel(c) ==
    CASE c = ch0 -> 0
      [] c = ch1 -> 1
      [] c = chDot -> 2
      [] c = chSlash -> 3
      [] c = chBar -> 4
      [] OTHER -> 7

\* The switch of vpack_gt9: the value ORed in for one character, 0 for the
\* default case, which ORs nothing.
gt9_case(c) ==
    CASE c = ch0 -> 0
      [] c = ch1 -> 1
      [] c = chDot -> 2
      [] c = chSlash -> 3
      [] c = chBar -> 4
      [] OTHER -> 0

RECURSIVE vpack_gt9_loop(_, _, _)
\* The loop of vpack_gt9 from index i (gt is a 3-character sequence, gt[1]
\* being the C element gt[0]).
vpack_gt9_loop(v, gt, i) ==
    IF i >= 3 THEN v
    ELSE vpack_gt9_loop(BitOr(Shl(v, 3), U64(gt9_case(gt[i + 1]))), gt, i + 1)

\* vpack_gt9(&v, gt): the value of *v afterwards.
vpack_gt9(v, gt) == vpack_gt9_loop(v, gt, 0)

RECURSIVE vunpack_gt9_loop(_, _, _)
\* The loop of vunpack_gt9 from index i down to 0; returns [v, u].  A 3-bit
\* group of 5, 6 or 7 leaves u[i] as the caller left it.
vunpack_gt9_loop(v, u, i) ==
    IF i < 0 THEN [v |-> v, u |-> u]
    ELSE LET g == AndVal(v, 7)
             u2 == CASE g = 0 -> [u EXCEPT ![i + 1] = ch0]
                     [] g = 1 -> [u EXCEPT ![i + 1] = ch1]
                     [] g = 2 -> [u EXCEPT ![i + 1] = chDot]
                     [] g = 3 -> [u EXCEPT ![i + 1] = chSlash]
                     [] g = 4 -> [u EXCEPT ![i + 1] = chBar]
                     [] OTHER -> u
         IN  vunpack_gt9_loop(Shr(v, 3), u2, i - 1)

\* vunpack_gt9 storing the groups in the order it reads them.
vunpack_gt9_lsb_first(v, u) ==
    LET res == vunpack_gt9_loop(v, u, 2)
    IN  [v |-> res.v, u |-> <<res.u[3], res.u[2], res.u[1]>>]

\* vunpack_gt9(&v, u): [v, u] afterwards.
vunpack_gt9(v, u) == vunpack_gt9_loop(v, u, 2)

\* snvpack64 packing alt before ref.
snvpack64_alt_ref(sample_idx, chrom, pos, ref, alt, gt) ==
    LET v5 == BitOr(Shl(BitOr(Shl(U64(sample_idx), 5), U64(chrom)), 28), U64(pos))
    IN  vpack_gt9(VPACK_BASE(VPACK_BASE(v5, alt), ref), gt)

\* snvpack64(sample_idx, chrom, pos, ref, alt, gt): the returned word.
snvpack64(sample_idx, chrom, pos, ref, alt, gt) ==
    LET v1 == BitOr(Zero64, U64(sample_idx))
        v2 == Shl(v1, 5)
        v3 == BitOr(v2, U64(chrom))
        v4 == Shl(v3, 28)
        v5 == BitOr(v4, U64(pos))
        v6 == VPACK_BASE(v5, ref)
        v7 == VPACK_BASE(v6, alt)
    IN  vpack_gt9(v7, gt)

\* snvunpack64 reading the genotype groups least significant first.
snvunpack64_gt_rev(v, gt0) ==
    LET g == vunpack_gt9(v, gt0)
        a == VUNPACK_BASE(g.v)
        r == VUNPACK_BASE(a.v)
        v1 == Shr(r.v, 28)
        v2 == Shr(v1, 5)
    IN  [v |-> v2, sample_idx |-> U32(v2), chrom |-> AndVal(v1, VMASK_5),
         pos |-> AndVal(r.v, VMASK_28), ref |-> r.base, alt |-> a.base,
         gt |-> <<g.u[3], g.u[2], g.u[1]>>]

\* snvunpack64(&v, &sample_idx, &chrom, &pos, &ref, &alt, gt): the word and
\* the output locations afterwards; gt0 is the caller's gt buffer before.
snvunpack64(v, gt0) ==
    LET g == vunpack_gt9(v, gt0)
        a == VUNPACK_BASE(g.v)
        r == VUNPACK_BASE(a.v)
        p == AndVal(r.v, VMASK_28)
        v1 == Shr(r.v, 28)
        c == AndVal(v1, VMASK_5)
        v2 == Shr(v1, 5)
    IN  [v |-> v2, sample_idx |-> U32(v2), chrom |-> c, pos |-> p,
         ref |-> r.base, alt |-> a.base, gt |-> g.u]

\* vpack64_loc shifting the position in by 27 bits instead of 28.
vpack64_loc_27(chrom, pos, ref, alt) ==
    VPACK_BASE(VPACK_BASE(BitOr(Shl(U64(chrom), 27), U64(pos)), ref), alt)

\* vpack64_loc(chrom, pos, ref, alt): the returned word.
vpack64_loc(chrom, pos, ref, alt) ==
    LET v1 == BitOr(Zero64, U64(chrom))
        v2 == Shl(v1, 28)
        v3 == BitOr(v2, U64(pos))
        v4 == VPACK_BASE(v3, ref)
    IN  VPACK_BASE(v4, alt)

----------------------------------------------------------------------------
(* Multi-sample packing                                                    *)

GtIdx == 0..63

\* vpack_rec1_t_init(): (vpack_rec1_t){0}
vpack_rec1_t_init == [v |-> Zero64, offset |-> 0, gt |-> [i \in GtIdx |-> 0], u |-> 0]

\* vpack_rec with the capacity check one pair early.
vpack_rec_cap62(r, a, b) ==
    IF r.offset >= 62 THEN [rec |-> r, ret |-> -1]
    ELSE [rec |-> [r EXCEPT !.v = VPACK_BASE(VPACK_BASE(r.v, a), b),
                            !.offset = r.offset + 2, !.u = 1], ret |-> 0]

\* vpack_rec with the capacity check made after the first allele is packed.
vpack_rec_partial(r, a, b) ==
    LET v1 == VPACK_BASE(r.v, a)
        o1 == r.offset + 1
    IN  IF o1 >= 64 THEN [rec |-> [r EXCEPT !.v = v1, !.offset = o1], ret |-> -1]
        ELSE [rec |-> [r EXCEPT !.v = VPACK_BASE(v1, b), !.offset = o1 + 1, !.u = 1],
              ret |-> 0]

\* vpack_rec without its capacity check.
vpack_rec_nocheck(r, a, b) ==
    [rec |-> [r EXCEPT !.v = VPACK_BASE(VPACK_BASE(r.v, a), b),
                       !.offset = r.offset + 2, !.u = 1], ret |-> 0]

\* vpack_rec leaving the tag of an unpacked record alone.
vpack_rec_keep_u(r, a, b) ==
    IF r.offset >= 63 THEN [rec |-> r, ret |-> -1]
    ELSE [rec |-> [r EXCEPT !.v = VPACK_BASE(VPACK_BASE(r.v, a), b),
                            !.offset = r.offset + 2,
                            !.u = IF r.u = 2 THEN 2 ELSE 1], ret |-> 0]

\* vpack_rec without the two increments of offset.
vpack_rec_nocount(r, a, b) ==
    IF r.offset >= 63 THEN [rec |-> r, ret |-> -1]
    ELSE [rec |-> [r EXCEPT !.v = VPACK_BASE(VPACK_BASE(r.v, a), b), !.u = 1],
          ret |-> 0]

\* vpack_rec with the capacity check one pair late.
vpack_rec_cap65(r, a, b) ==
    IF r.offset >= 65 THEN [rec |-> r, ret |-> -1]
    ELSE [rec |-> [r EXCEPT !.v = VPACK_BASE(VPACK_BASE(r.v, a), b),
                            !.offset = r.offset + 2, !.u = 1], ret |-> 0]

\* vpack_rec(rec, a, b): the record afterwards and the returned status.
vpack_rec(r, a, b) ==
    IF r.offset >= 63 THEN [rec |-> r, ret |-> -1]
    ELSE LET v1 == VPACK_BASE(r.v, a)
             o1 == r.offset + 1
             v2 == VPACK_BASE(v1, b)
             o2 == o1 + 1
         IN  [rec |-> [r EXCEPT !.v = v2, !.offset = o2, !.u = 1], ret |-> 0]

RECURSIVE vunpack_rec_loop(_, _)
\* The loop of vunpack_rec from index i down to 0.
vunpack_rec_loop(r, i) ==
    IF i < 0 THEN r
    ELSE vunpack_rec_loop(
             [r EXCEPT !.gt[i] = dec_dna_8[AndVal(r.v, 3)],
                       !.v = Shr(r.v, 2)],
             i - 1)

\* vunpack_rec refusing a record that was never packed.
vunpack_rec_guarded(r) ==
    IF r.u = 0 THEN r ELSE [vunpack_rec_loop(r, r.offset - 1) EXCEPT !.u = 2]

\* vunpack_rec clearing the tag of a record that is already unpacked.
vunpack_rec_toggle(r) ==
    [vunpack_rec_loop(r, r.offset - 1) EXCEPT !.u = IF r.u = 2 THEN 0 ELSE 2]

\* vunpack_rec doing nothing on a record that is already unpacked.
vunpack_rec_once(r) ==
    IF r.u = 2 THEN r ELSE [vunpack_rec_loop(r, r.offset - 1) EXCEPT !.u = 2]

\* vunpack_rec(rec): the record afterwards (the function returns void).
vunpack_rec(r) == [vunpack_rec_loop(r, r.offset - 1) EXCEPT !.u = 2]

\* vp_get_genotype accepting a record that is packed but not unpacked.
vp_get_genotype_packed(r, sample_idx, g) ==
    IF r.u < 1 \/ sample_idx >= r.offset \div 2 THEN [gt |-> g, ret |-> -1]
    ELSE [gt |-> [a |-> r.gt[sample_idx * 2], b |-> r.gt[sample_idx * 2 + 1]],
          ret |-> 0]

\* vp_get_genotype(rec, sample_idx, gt): the caller's pair afterwards and the
\* returned status; g is the caller's pair before the call.
vp_get_genotype(r, sample_idx, g) ==
    IF r.u < 2 \/ sample_idx >= r.offset \div 2 THEN [gt |-> g, ret |-> -1]
    ELSE [gt |-> [a |-> r.gt[sample_idx * 2], b |-> r.gt[sample_idx * 2 + 1]],
          ret |-> 0]

----------------------------------------------------------------------------
(* The callers                                                             *)

\* Streams of genotype pairs a caller appends, each repeated cyclically.
Patterns ==
    { << <<chA, chT>>, <<chG, chC>> >>,
      << <<chT, chT>> >>,
      << <<chC, chG>>, <<chT, chA>>, <<chA, chC>> >>,
      << <<chG, chN>>, <<chA, chA>> >>,
      << <<chN, chT>>, <<chG, chG>>, <<chC, chC>> >>,
      << <<chN, chN>>, <<chT, chG>> >> }

\* Sample indexes a caller looks up.
SampleIdxs == {0, 1, 16, 31, 32}

\* How many vpack_rec and vunpack_rec calls a caller makes after its first
\* vunpack_rec.
MaxLate == 2

\* The pair the caller appends as its k-th successful append (k from 0).
PairAt(k) == input[(k % Len(input)) + 1]

\* Arguments of the single-variant caller.
\* <<sample_idx, chrom, pos>>: in range, at the top of each range, and one
\* field at a time wider than its declared width.
Loci ==
    { <<5, 1, 100000>>, <<0, 0, 0>>, <<131071, 31, 268435455>>,
      <<131072, 1, 100000>>, <<262149, 1, 100000>>,
      <<4, 32, 100000>>, <<5, 2, 268435457>> }
Bases == {chA, chC, chG, chT}
GtChars == {ch0, ch1, chDot, chSlash, chBar}
GtTokens == {<<x, y, z>> : x \in GtChars, y \in GtChars, z \in GtChars}

NoCall == [op |-> "none", idx |-> 0, void |-> TRUE, ret |-> 0]
NoPair == [a |-> 0, b |-> 0]
NoSnv == [sample_idx |-> 0, chrom |-> 0, pos |-> 0, ref |-> chA, alt |-> chA,
          gt |-> <<ch0, ch0, ch0>>]
NoDec == [sample_idx |-> 0, chrom |-> 0, pos |-> 0, ref |-> 0, alt |-> 0,
          gt |-> <<0, 0, 0>>]

RecIdle ==
    /\ rec = vpack_rec1_t_init
    /\ input = << <<chA, chA>> >>
    /\ npacked = 0
    /\ last = NoCall
    /\ pre = [offset |-> 0, u |-> 0]
    /\ late = 0
    /\ out = NoPair

SnvIdle ==
    /\ snv = NoSnv
    /\ word = Zero64
    /\ loc = Zero64
    /\ dec = NoDec
    /\ pc = "idle"

NoGt == [pc |-> "idle", tok |-> <<ch0, ch0, ch0>>, v |-> Zero64, u |-> <<0, 0, 0>>]
NoAllele == [pc |-> "idle", byte |-> 0, code |-> 0, v |-> Zero64, base |-> 0]

CodecIdle ==
    /\ gtc = NoGt
    /\ alc = NoAllele

\* A fresh record and a caller with one of the streams.
InitRec ==
    /\ rec = vpack_rec1_t_init
    /\ input \in Patterns
    /\ npacked = 0
    /\ last = NoCall
    /\ pre = [offset |-> 0, u |-> 0]
    /\ late = 0
    /\ out = NoPair
    /\ SnvIdle
    /\ CodecIdle

\* The caller appends its next pair.
PackRec ==
    LET p == PairAt(npacked)
        res == vpack_rec(rec, p[1], p[2])
    IN  /\ late <= MaxLate
        /\ late' = IF late > 0 THEN late + 1 ELSE 0
        /\ rec' = res.rec
        /\ npacked' = IF res.ret = 0 THEN npacked + 1 ELSE npacked
        /\ last' = [op |-> "vpack_rec", idx |-> 0, void |-> FALSE, ret |-> res.ret]
        /\ pre' = [offset |-> rec.offset, u |-> rec.u]
        /\ UNCHANGED <<input, out, snvVars, codecVars>>

\* The caller unpacks the record; the function returns no status.
UnpackRec ==
    /\ late <= MaxLate
    /\ late' = late + 1
    /\ rec' = vunpack_rec(rec)
    /\ last' = [op |-> "vunpack_rec", idx |-> 0, void |-> TRUE, ret |-> 0]
    /\ pre' = [offset |-> rec.offset, u |-> rec.u]
    /\ UNCHANGED <<input, npacked, out, snvVars, codecVars>>

\* The caller looks up one sample.
GetGenotype(idx) ==
    LET res == vp_get_genotype(rec, idx, out)
    IN  /\ out' = res.gt
        /\ last' = [op |-> "vp_get_genotype", idx |-> idx, void |-> FALSE,
                    ret |-> res.ret]
        /\ pre' = [offset |-> rec.offset, u |-> rec.u]
        /\ UNCHANGED <<rec, input, npacked, late, snvVars, codecVars>>

NextRec ==
    \/ PackRec
    \/ UnpackRec
    \/ \E idx \in SampleIdxs : GetGenotype(idx)

\* The accumulator: every sequence of calls on a fresh record.
Spec == InitRec /\ [][NextRec]_vars

\* The single-variant caller with its arguments chosen.
InitSnv ==
    /\ \E l \in Loci, r \in Bases, a \in Bases, g \in GtTokens :
           snv = [sample_idx |-> l[1], chrom |-> l[2], pos |-> l[3],
                  ref |-> r, alt |-> a, gt |-> g]
    /\ word = Zero64
    /\ loc = Zero64
    /\ dec = NoDec
    /\ pc = "start"
    /\ RecIdle
    /\ CodecIdle

SnvPack ==
    /\ pc = "start"
    /\ word' = snvpack64(snv.sample_idx, snv.chrom, snv.pos, snv.ref, snv.alt, snv.gt)
    /\ pc' = "packed"
    /\ UNCHANGED <<snv, loc, dec, recVars, codecVars>>

SnvUnpack ==
    /\ pc = "packed"
    /\ LET res == snvunpack64(word, dec.gt)
       IN  /\ word' = res.v
           /\ dec' = [sample_idx |-> res.sample_idx, chrom |-> res.chrom,
                      pos |-> res.pos, ref |-> res.ref, alt |-> res.alt,
                      gt |-> res.gt]
    /\ pc' = "unpacked"
    /\ UNCHANGED <<snv, loc, recVars, codecVars>>

LocPack ==
    /\ pc = "start"
    /\ loc' = vpack64_loc(snv.chrom, snv.pos, snv.ref, snv.alt)
    /\ pc' = "loc"
    /\ UNCHANGED <<snv, word, dec, recVars, codecVars>>

NextSnv ==
    \/ SnvPack
    \/ SnvUnpack
    \/ LocPack

\* The single-variant and locus codecs over the chosen arguments.
SpecSnv == InitSnv /\ [][NextSnv]_vars

\* Genotype characters a caller passes: the recognized ones and one that
\* the switch of vpack_gt9 does not know.
AnyGtChars == GtChars \cup {chN}
AnyGtTokens == {<<x, y, z>> : x \in AnyGtChars, y \in AnyGtChars, z \in AnyGtChars}

\* The genotype-codec caller with its token chosen, a zero accumulator and a
\* zeroed output buffer.
InitGt ==
    /\ \E t \in AnyGtTokens : gtc = [NoGt EXCEPT !.pc = "start", !.tok = t]
    /\ alc = NoAllele
    /\ RecIdle
    /\ SnvIdle

GtPack ==
    /\ gtc.pc = "start"
    /\ gtc' = [gtc EXCEPT !.pc = "packed", !.v = vpack_gt9(gtc.v, gtc.tok)]
    /\ UNCHANGED <<alc, recVars, snvVars>>

GtUnpack ==
    /\ gtc.pc = "packed"
    /\ LET res == vunpack_gt9(gtc.v, gtc.u)
       IN  gtc' = [gtc EXCEPT !.pc = "unpacked", !.v = res.v, !.u = res.u]
    /\ UNCHANGED <<alc, recVars, snvVars>>

NextGt ==
    \/ GtPack
    \/ GtUnpack

\* The genotype codec over every chosen token.
SpecGt == InitGt /\ [][NextGt]_vars

\* The allele-codec caller with its byte chosen.
InitAllele ==
    /\ \E c \in 0..255 : alc = [NoAllele EXCEPT !.pc = "start", !.byte = c]
    /\ gtc = NoGt
    /\ RecIdle
    /\ SnvIdle

\* The caller encodes its byte.
AlleleEncode ==
    /\ alc.pc = "start"
    /\ alc' = [alc EXCEPT !.pc = "encoded", !.code = ENCODE(alc.byte)]
    /\ UNCHANGED <<gtc, recVars, snvVars>>

\* The caller packs its byte into a zero word.
AllelePack ==
    /\ alc.pc = "encoded"
    /\ alc' = [alc EXCEPT !.pc = "packed", !.v = VPACK_BASE(Zero64, alc.byte)]
    /\ UNCHANGED <<gtc, recVars, snvVars>>

\* The caller unpacks the base from the word.
AlleleUnpack ==
    /\ alc.pc = "packed"
    /\ LET res == VUNPACK_BASE(alc.v)
       IN  alc' = [alc EXCEPT !.pc = "unpacked", !.v = res.v, !.base = res.base]
    /\ UNCHANGED <<gtc, recVars, snvVars>>

NextAllele ==
    \/ AlleleEncode
    \/ AllelePack
    \/ AlleleUnpack

\* The allele codec over every byte.
SpecAllele == InitAllele /\ [][NextAllele]_vars

----------------------------------------------------------------------------
(* Properties of the accumulator, checked under Spec                       *)

\* Every base of the caller's stream is one of A, C, G, T.
InputRecognized ==
    \A k \in 1..Len(input) : input[k][1] \in Bases /\ input[k][2] \in Bases

\* The last call was a vpack_rec in a run of vpack_rec calls on a record that
\* was never unpacked.
AppendOnFresh == late = 0 /\ last.op = "vpack_rec"

\* C1 as stated: on a fresh record the first 31 vpack_rec calls return 0 and
\* the 32nd, made at offset 62, returns -1 and leaves offset at 62.
C1_Capacity31 ==
    AppendOnFresh =>
        /\ (pre.offset < 62 => last.ret = 0)
        /\ (pre.offset = 62 => last.ret = -1 /\ rec.offset = 62)

\* C1 amended: on a fresh record the first 32 vpack_rec calls return 0, each
\* raising offset by 2, and every later call, made at offset 64, returns -1
\* and leaves offset at 64.
C1_Capacity32 ==
    AppendOnFresh =>
        IF last.ret = 0
        THEN npacked <= 32 /\ pre.offset = 2 * (npacked - 1) /\ rec.offset = 2 * npacked
        ELSE last.ret = -1 /\ npacked = 32 /\ pre.offset = 64 /\ rec.offset = 64

\* The 33rd vpack_rec call on a fresh record has been refused.
C1_Witness == AppendOnFresh /\ last.ret = -1 /\ npacked = 32 /\ rec.offset = 64

\* C2: after pairs of recognized bases are appended to a fresh record and the
\* record is unpacked once, vp_get_genotype(i) returns 0 and yields the i-th
\* appended pair, for every i below the number of appended pairs.
C2_Ordering ==
    (late = 1 /\ last.op = "vunpack_rec" /\ InputRecognized) =>
        \A i \in 0..(npacked - 1) :
            vp_get_genotype(rec, i, out) =
                [gt |-> [a |-> PairAt(i)[1], b |-> PairAt(i)[2]], ret |-> 0]

\* C4 as stated: vunpack_rec on an Initialized record returns a failure
\* status and does not move the record to Unpacked.
C4_UnpackInitializedFails ==
    (last.op = "vunpack_rec" /\ pre.u = 0) =>
        (~last.void /\ last.ret = -1 /\ rec.u # 2)

\* C4 amended: vunpack_rec on an Initialized record returns no status, leaves
\* v, offset and gt zero and moves the tag to Unpacked; vp_get_genotype then
\* returns -1 for every sample index.
C4_UnpackInitializedSilent ==
    (last.op = "vunpack_rec" /\ pre.u = 0) =>
        /\ last.void
        /\ rec = [vpack_rec1_t_init EXCEPT !.u = 2]
        /\ \A idx \in SampleIdxs : vp_get_genotype(rec, idx, out).ret = -1

\* vunpack_rec has been called on a record that was never packed.
C4_Witness == last.op = "vunpack_rec" /\ pre.u = 0 /\ rec.u = 2 /\ npacked = 0

\* C5: a vp_get_genotype call made while u < 2, or with sample_idx >=
\* offset/2, returns -1 and changes neither the record nor the caller's pair.
C5_GetGenotypeRejects ==
    [][(last'.op = "vp_get_genotype"
          /\ (rec.u < 2 \/ last'.idx >= rec.offset \div 2))
       => (last'.ret = -1 /\ rec' = rec /\ out' = out)]_vars

\* A lookup on a record that is packed but not unpacked has been refused
\* while the caller's pair held an earlier result.
C5_Witness ==
    last.op = "vp_get_genotype" /\ last.ret = -1 /\ pre.u = 1 /\ out # NoPair

\* C6: a vpack_rec call that returns -1 leaves v, offset, gt and u as they were.
C6_AtomicRejection ==
    [][(last'.op = "vpack_rec" /\ last'.ret = -1) => rec' = rec]_vars

\* A vpack_rec call has been refused on a record holding packed bases.
C6_Witness ==
    last.op = "vpack_rec" /\ last.ret = -1 /\ rec.v # Zero64 /\ rec.u = 1

\* C7 as stated: offset is always even and at most 62.
C7_OffsetAtMost62 == rec.offset % 2 = 0 /\ rec.offset <= 62

\* C7 amended: offset is always even and at most 64 (at most 32 pairs are
\* ever counted).
C7_OffsetAtMost64 == rec.offset % 2 = 0 /\ rec.offset <= 64

\* The record counts 32 pairs.
C7_Witness == rec.offset = 64 /\ npacked = 32

----------------------------------------------------------------------------
(* Properties of the single-variant and locus codecs, checked under SpecSnv *)

\* The numeric arguments fit their declared widths.
InRange == snv.sample_idx < 2^17 /\ snv.chrom < 32 /\ snv.pos < 2^28

\* The 2-bit code of the layout comment: A, C, G, T are 0, 1, 2, 3.
CodeOf(b) == CASE b = chA -> 0 [] b = chC -> 1 [] b = chG -> 2 [] b = chT -> 3

\* The 3-bit code of a genotype character.
GtCodeOf(c) ==
    CASE c = ch0 -> 0 [] c = ch1 -> 1 [] c = chDot -> 2 [] c = chSlash -> 3
      [] c = chBar -> 4

\* The 9-bit genotype code of a token.
Gt9Of(t) == 64 * GtCodeOf(t[1]) + 8 * GtCodeOf(t[2]) + GtCodeOf(t[3])

\* C3: for in-range arguments, recognized bases and genotype characters,
\* snvunpack64 of the word returned by snvpack64 recovers every argument.
C3_RoundTrip ==
    (pc = "unpacked" /\ InRange) => dec = snv

\* The example of the specification has made the round trip.
C3_Witness ==
    /\ pc = "unpacked"
    /\ snv = [sample_idx |-> 5, chrom |-> 1, pos |-> 100000, ref |-> chA,
              alt |-> chT, gt |-> <<ch0, chSlash, ch1>>]
    /\ dec = snv

\* The arguments with each numeric field reduced to its declared width.
Reduced ==
    [snv EXCEPT !.sample_idx = snv.sample_idx % (2^17),
                !.chrom = snv.chrom % 32,
                !.pos = snv.pos % (2^28)]

\* C8: the word returned by snvpack64 is the word of the arguments reduced to
\* their declared widths, and snvunpack64 returns the reduced arguments.
C8_SilentTruncation ==
    /\ pc = "packed" =>
           word = snvpack64(Reduced.sample_idx, Reduced.chrom, Reduced.pos,
                            snv.ref, snv.alt, snv.gt)
    /\ pc = "unpacked" => dec = Reduced

\* C9: for in-range arguments the word holds sample_idx in bits 46..62, chrom
\* in bits 41..45, pos in bits 13..40, the codes of ref and alt in bits 11..12
\* and 9..10 and the genotype code in bits 0..8, and bit 63 is 0.
C9_WordLayout ==
    (pc = "packed" /\ InRange) =>
        /\ BitsVal(word, 46, 17) = snv.sample_idx
        /\ BitsVal(word, 41, 5) = snv.chrom
        /\ BitsVal(word, 13, 28) = snv.pos
        /\ BitsVal(word, 11, 2) = CodeOf(snv.ref)
        /\ BitsVal(word, 9, 2) = CodeOf(snv.alt)
        /\ BitsVal(word, 0, 9) = Gt9Of(snv.gt)
        /\ word[63] = 0

\* A word with every field at the top of its range and two different alleles
\* has been packed.
C9_Witness ==
    /\ pc = "packed"
    /\ snv.sample_idx = 131071 /\ snv.chrom = 31 /\ snv.pos = 268435455
    /\ snv.ref = chG /\ snv.alt = chT
    /\ \A i \in 9..62 : i \notin {11, 12} => word[i] = 1

\* C10: for in-range chrom and pos the locus word holds chrom in bits 32..36,
\* pos in bits 4..31, the codes of ref and alt in bits 2..3 and 0..1, has bits
\* 37..63 clear, and is the single-variant word of sample 0 shifted right by 9.
C10_LocusLayout ==
    (pc = "loc" /\ snv.chrom < 32 /\ snv.pos < 2^28) =>
        /\ BitsVal(loc, 32, 5) = snv.chrom
        /\ BitsVal(loc, 4, 28) = snv.pos
        /\ BitsVal(loc, 2, 2) = CodeOf(snv.ref)
        /\ BitsVal(loc, 0, 2) = CodeOf(snv.alt)
        /\ \A i \in 37..63 : loc[i] = 0
        /\ loc = Shr(snvpack64(0, snv.chrom, snv.pos, snv.ref, snv.alt, snv.gt), 9)

\* A locus word with non-zero chrom, pos and allele codes has been packed.
C10_Witness ==
    /\ pc = "loc"
    /\ snv.chrom = 1 /\ snv.pos = 100000 /\ snv.ref = chC /\ snv.alt = chG
    /\ loc # Zero64

----------------------------------------------------------------------------
(* Properties of the genotype codec, checked under SpecGt                  *)

\* C11: for every token over '0', '1', '.', '/', '|', vpack_gt9 on a zero
\* accumulator gives the code 64*m(t[0]) + 8*m(t[1]) + m(t[2]) and nothing
\* above bit 8, and vunpack_gt9 of that code gives the token back in its
\* original order.
C11_GtRoundTrip ==
    gtc.tok \in GtTokens =>
        /\ gtc.pc = "packed" =>
               /\ BitsVal(gtc.v, 0, 9) = Gt9Of(gtc.tok)
               /\ \A i \in 9..63 : gtc.v[i] = 0
        /\ gtc.pc = "unpacked" => gtc.u = gtc.tok

\* A token of three different characters has made the round trip.
C11_Witness ==
    gtc.pc = "unpacked" /\ gtc.tok = <<ch1, chBar, ch0>> /\ gtc.u = gtc.tok

\* The token with '0' in place of every unrecognized character.
WithZeros(t) ==
    << IF t[1] \in GtChars THEN t[1] ELSE ch0,
       IF t[2] \in GtChars THEN t[2] ELSE ch0,
       IF t[3] \in GtChars THEN t[3] ELSE ch0 >>

\* C17: for a token with an unrecognized character, the 3-bit group of that
\* position is 0 and the other groups hold the codes of their characters, the
\* code is that of the token with '0' in that position, and vunpack_gt9 yields
\* '0' there.
C17_UnknownGtChar ==
    gtc.tok \notin GtTokens =>
        /\ gtc.pc = "packed" =>
               /\ \A i \in 1..3 :
                      BitsVal(gtc.v, 3 * (3 - i), 3) =
                          IF gtc.tok[i] \in GtChars THEN GtCodeOf(gtc.tok[i]) ELSE 0
               /\ gtc.v = vpack_gt9(Zero64, WithZeros(gtc.tok))
        /\ gtc.pc = "unpacked" => gtc.u = WithZeros(gtc.tok)

\* A token with an unrecognized character between two recognized ones has
\* been packed and unpacked.
C17_Witness ==
    gtc.pc = "unpacked" /\ gtc.tok = <<ch1, chN, chBar>> /\ gtc.u = <<ch1, ch0, chBar>>

----------------------------------------------------------------------------
(* Properties of the allele codec, checked under SpecAllele                *)

\* The low three bits of the bytes 'A', 'C', 'G', 'T'.
BaseLow3 == {chA % 8, chC % 8, chG % 8, chT % 8}

\* C12: ENCODE gives A, C, G, T codes in 0..3 that the decode table maps back
\* to the base (so the four codes differ), a base packed into a word unpacks
\* to itself, and ENCODE gives 4 exactly for the bytes whose low three bits
\* are not those of A, C, G or T.
C12_AlleleCodec ==
    /\ (alc.pc # "start" /\ alc.byte \in Bases) =>
           (alc.code \in 0..3 /\ dec_dna_8[alc.code] = alc.byte)
    /\ (alc.pc = "unpacked" /\ alc.byte \in Bases) => alc.base = alc.byte
    /\ alc.pc # "start" => (alc.code = 4 <=> (alc.byte % 8) \notin BaseLow3)

\* The base 'G' has been encoded, packed and unpacked.
C12_Witness ==
    alc.pc = "unpacked" /\ alc.byte = chG /\ alc.code = 2 /\ alc.base = chG

----------------------------------------------------------------------------
(* Further properties of the accumulator, checked under Spec               *)

\* C13 as stated: over any sequence of calls the tag u never decreases.
C13_TagNeverDecreases == [][rec'.u >= rec.u]_vars

\* C13 amended: a successful vpack_rec on an Unpacked record moves the tag
\* back to Packed, and that is the only step in which the tag decreases.
C13_TagDecreasesOnlyByAppend ==
    [][/\ (rec.u = 2 /\ last'.op = "vpack_rec" /\ last'.ret = 0) => rec'.u = 1
       /\ rec'.u < rec.u =>
              (rec.u = 2 /\ rec'.u = 1 /\ last'.op = "vpack_rec" /\ last'.ret = 0)]_vars

\* A pair has been appended to an Unpacked record.
C13_Witness ==
    last.op = "vpack_rec" /\ last.ret = 0 /\ pre.u = 2 /\ rec.u = 1

\* C14: once the tag is not Initialized, no call makes it Initialized again.
C14_NeverBackToInitialized == [][rec.u # 0 => rec'.u # 0]_vars

\* An Unpacked record has been unpacked again and its tag is still Unpacked.
C14_Witness ==
    last.op = "vunpack_rec" /\ pre.u = 2 /\ rec.u = 2 /\ late = MaxLate + 1

\* C15: a record tagged Initialized has offset 0 and v 0; a record tagged
\* Packed has offset > 0 and at least one successful append behind it.
C15_TagAgreesWithData ==
    /\ rec.u = 0 => (rec.offset = 0 /\ rec.v = Zero64 /\ npacked = 0)
    /\ rec.u = 1 => (rec.offset > 0 /\ npacked > 0)

\* The first pair has been appended to a fresh record.
C15_Witness ==
    last.op = "vpack_rec" /\ pre.u = 0 /\ rec.u = 1 /\ rec.offset = 2

\* C18: offset never exceeds 64, every index vunpack_rec writes
\* (0..offset-1) and every index a successful vp_get_genotype reads
\* (2*sample_idx, 2*sample_idx+1) is an index of the 64-entry gt buffer.
C18_BufferBounds ==
    /\ rec.offset <= 64
    /\ last.op = "vunpack_rec" => \A i \in 0..(pre.offset - 1) : i \in GtIdx
    /\ (last.op = "vp_get_genotype" /\ last.ret = 0) =>
           (2 * last.idx \in GtIdx /\ 2 * last.idx + 1 \in GtIdx)

\* The last pair of a full record has been read from gt[62] and gt[63].
C18_Witness ==
    last.op = "vp_get_genotype" /\ last.ret = 0 /\ last.idx = 31 /\ rec.offset = 64

\* The record was packed, unpacked once and not appended to since.
UnpackedOnce == rec.u = 2 /\ late = 1

\* C19 as stated: on a record packed with recognized bases and unpacked once,
\* a second vunpack_rec leaves the result of vp_get_genotype(i) unchanged for
\* every i < offset/2.
C19_UnpackIdempotent ==
    [][(UnpackedOnce /\ InputRecognized /\ last'.op = "vunpack_rec") =>
           \A i \in 0..((rec.offset \div 2) - 1) :
               vp_get_genotype(rec', i, out) = vp_get_genotype(rec, i, out)]_vars

\* C19 amended: the first vunpack_rec leaves v zero, so on a record packed
\* with recognized bases and unpacked once a second vunpack_rec rewrites
\* gt[0..offset-1] with 'A', and vp_get_genotype(i) then returns 0 with
\* ('A','A') for every i < offset/2.
C19_SecondUnpackYieldsA ==
    (last.op = "vunpack_rec" /\ late = 2 /\ pre.u = 2 /\ InputRecognized) =>
        \A i \in 0..((rec.offset \div 2) - 1) :
            vp_get_genotype(rec, i, out) = [gt |-> [a |-> chA, b |-> chA], ret |-> 0]

\* A record whose first pair was not ('A','A') has been unpacked twice.
C19_Witness ==
    /\ last.op = "vunpack_rec" /\ late = 2 /\ pre.u = 2 /\ InputRecognized
    /\ npacked >= 1 /\ PairAt(0) # <<chA, chA>>
    /\ rec.gt[0] = chA /\ rec.gt[1] = chA

\* The base appended as allele j (from 0) of a record never unpacked before.
BaseAt(j) == PairAt(j \div 2)[(j % 2) + 1]

\* Allele j was appended as a base with the degenerate code 4.
Degenerate(j) == ENCODE(BaseAt(j)) = 4

\* x | 1 for a small number x.
Or1(x) == IF x % 2 = 0 THEN x + 1 ELSE x

\* The record has just been unpacked for the first time.
FirstUnpack == last.op = "vunpack_rec" /\ late = 1

\* The alleles still held in the 64-bit word when it was unpacked.
Held == {j \in 0..(rec.offset - 1) : j >= rec.offset - 32}

\* C16 as stated: after unpack, a base appended with the degenerate code
\* reads back as 'A' and the allele appended before it reads back as
\* decode(code(prev) OR 1).
C16_DegenerateReadsA ==
    FirstUnpack =>
        \A j \in Held :
            Degenerate(j) =>
                /\ rec.gt[j] = chA
                /\ (j - 1) \in Held =>
                       rec.gt[j - 1] = dec_dna_8[Or1(ENCODE(BaseAt(j - 1))) % 4]

\* C16 amended: after unpack, every allele still held in the word reads back
\* as decode of its 2-bit code ORed with 1 when the allele appended right
\* after it has the degenerate code: a degenerate base reads back as 'A', or
\* as 'C' when the next appended base is degenerate too, and the allele
\* before a degenerate base reads back as decode(code(prev) OR 1).  Alleles
\* shifted out of the word read back as 'A'.
C16_DegenerateCorruptsPrevious ==
    FirstUnpack =>
        \A j \in 0..(rec.offset - 1) :
            rec.gt[j] =
                IF j \notin Held THEN chA
                ELSE IF (j + 1) \in Held /\ Degenerate(j + 1)
                     THEN dec_dna_8[Or1(ENCODE(BaseAt(j)) % 4)]
                     ELSE dec_dna_8[ENCODE(BaseAt(j)) % 4]

\* ('G','N') has been appended and unpacked: 'G' reads back as 'T' and 'N'
\* as 'A'.
C16_Witness ==
    /\ FirstUnpack /\ npacked = 1 /\ PairAt(0) = <<chG, chN>>
    /\ rec.gt[0] = chT /\ rec.gt[1] = chA

====
